---- MODULE Spec2Model ----
(***************************************************************************)
(* A model of ifunnyapi's cursor-pagination accumulator,                   *)
(* _IFBaseAPI._get_paging_items (src/ifunnyapi/api.py), together with the  *)
(* request helper _get and its api_request decorator, run against a        *)
(* server whose answers are chosen nondeterministically.                   *)
(*                                                                         *)
(* One run of the model is one call of _get_paging_items(path, key,        *)
(* limit).  Each action is one synchronous request/response exchange and   *)
(* the straight-line code around it.                                       *)
(*                                                                         *)
(* Further specifications of the module model the same call made with the  *)
(* keyword arguments of a public method and against a server that may send *)
(* incomplete pages (SpecAnyCall), the feed generators (SpecFeed), the     *)
(* four request helpers (SpecHelper) and IFAPI.from_creds (SpecCreds).     *)
(***************************************************************************)
EXTENDS Integers, Sequences, FiniteSets, TLC

VARIABLES
    limit,      \* the limit argument (None or a non-negative integer)
    pc,         \* "call", "loop", "returned" or "raised"
    batch,      \* the local batch: the last decoded response
    items,      \* the local items: the accumulated list
    lbuffer,    \* the local loop counter
    val,        \* full batches after the first page (limit > 100 only)
    rem,        \* size of the final request (limit > 100 only)
    requests,   \* history: the params of every GET issued, in order
    responses,  \* history: what every GET produced, in order
    result,     \* the returned list, once returned
    raised,     \* the exception that ended the call, if any
    kwargs,     \* the **kwargs the public method hands to the call
    shapes,     \* which bodies the server may send: "pages" or "any"
    feed,       \* a feed generator and its caller
    helper,     \* one call of a request helper
    creds       \* one call of IFAPI.from_creds

vars == <<limit, pc, batch, items, lbuffer, val, rem,
          requests, responses, result, raised,
          kwargs, shapes, feed, helper, creds>>

\* What the paging call never touches.
context == <<kwargs, shapes, feed, helper, creds>>

\* The variables of the paging call.
paging == <<limit, pc, batch, items, lbuffer, val, rem,
            requests, responses, result, raised, kwargs, shapes>>

----------------------------------------------------------------------------
(* Bounds of the model *)

\* Largest limit argument explored.
MaxLimit == 301

\* Largest number of GETs the loop of an unbounded (limit = None) call
\* may have issued before the model stops extending the run.
MaxFetches == 4

\* Largest limit argument of a feed generator explored.
MaxFeedLimit == 3

\* Largest number of posts an unbounded (limit = None) feed generator is
\* asked for.
MaxFeedGets == 3

\* The server's posts have the ids 1 .. MaxPost.
MaxPost == 2

----------------------------------------------------------------------------
(* Program constants and values *)

\* limit: int = None
None == -1

\* The page size the code hard-wires.
PAGE == 100

\* The value of a local or of a return value before it is assigned.
Unset == [unset |-> TRUE]

\* The value of items and of result before they are assigned: a list that
\* is no list of items (the items are the positions 1, 2, ...).
NoList == <<None>>

Limits == {None} \cup (0 .. MaxLimit)

----------------------------------------------------------------------------
(* The server *)

\* The server's items are identified by their position: the n items that
\* follow position c.
Slice(c, n) == [i \in 1 .. n |-> c + i]

\* A decoded page: r["data"][key] holds items and paging.
Page(its, hn, nx) ==
    [data |-> [items |-> its,
               paging |-> [hasNext |-> hn, cursors |-> [next |-> nx]]]]

\* A decoded error body.
ErrorBody == [error |-> "bad_request", status |-> 400,
              error_description |-> "Bad Request"]

\* Where a request starts reading: after its cursor, or at the beginning.
StartOf(params) == IF "next" \in DOMAIN params THEN params.next ELSE 0

\* The page sizes a server may answer a request for s items with:
\* the full page, a short page, or more than was asked.
Counts(s) == {s, s \div 2, s + 1}

\* Every body the server may send back for a request: a page of the items
\* after the request's cursor, with any hasNext flag and with the position
\* after its last item as its cursor, or an error body.
Bodies(params) ==
    {Page(Slice(StartOf(params), n), hn, StartOf(params) + n) :
        n \in Counts(params.limit), hn \in BOOLEAN}
    \cup {ErrorBody}

\* What one GET may produce: a decoded body, or a failure of the transport
\* (requests raises before any body is decoded).
TransportFailure == [exception |-> "ConnectionError"]

\* Pages that lack one of the fields the helpers read: the items list,
\* the next cursor, or the hasNext flag.
NoItemsPage(hn, nx) ==
    [data |-> [paging |-> [hasNext |-> hn, cursors |-> [next |-> nx]]]]

NoCursorPage(its, hn) ==
    [data |-> [items |-> its, paging |-> [hasNext |-> hn]]]

NoFlagPage(its, nx) ==
    [data |-> [items |-> its, paging |-> [cursors |-> [next |-> nx]]]]

Incomplete(params) ==
    LET c == StartOf(params)
        n == params.limit
    IN  {NoItemsPage(TRUE, c + n),
         NoCursorPage(Slice(c, n), TRUE),
         NoFlagPage(Slice(c, n), c + n)}

Outcomes(params) ==
    Bodies(params) \cup {TransportFailure}
        \cup (IF shapes = "any" THEN Incomplete(params) ELSE {})

----------------------------------------------------------------------------
(* utils.api_request and _IFBaseAPI._get *)

\* "error" in retv
HasError(retv) == "error" \in DOMAIN retv

\* The exception a GET ends with, "none" when it returns its body.
api_request(out) ==
    IF out = TransportFailure THEN "ConnectionError"
    ELSE IF HasError(out) THEN "APIError"
    ELSE "none"

\* The keyword arguments of a public method that passes none of its own.
NoKwargs == [passed |-> {}]

\* tag_posts: params={"counters": "content", "tag": tag}
TagKwargs == [passed |-> {"params"},
              params |-> [counters |-> "content", tag |-> "meme"]]

\* self._get(path, params={...}, **kwargs) with "params" in kwargs:
\* the call itself raises TypeError, nothing is sent.
DuplicateParams == "params" \in kwargs.passed

----------------------------------------------------------------------------
(* The local helpers of _get_paging_items *)

\* The keys the helpers subscript; a missing one raises KeyError.
HasItemsKey(r) == "items" \in DOMAIN r.data

HasCursorKey(r) == "cursors" \in DOMAIN r.data.paging

HasFlagKey(r) == "hasNext" \in DOMAIN r.data.paging

get_next(r) == r.data.paging.cursors.next

has_next(r) == r.data.paging.hasNext

get_items(r) == r.data.items

\* lnone = limit is None
lnone == limit = None

\* ilim without the cap of 100.
ilim_Uncapped == IF lnone THEN PAGE ELSE limit

\* ilim = 100 if lnone or limit > 100 else limit
ilim == IF lnone \/ limit > PAGE THEN PAGE ELSE limit

\* params of the first request
FirstParams == [limit |-> ilim]

\* params of a request of the loop, and of the trailing request of an
\* unbounded call
NextParams == [limit |-> PAGE, next |-> get_next(batch)]

\* The final request asking for a full page instead of the remainder.
RemParams_FullPage == [limit |-> PAGE]

\* params of the final request of a call with limit > 100
RemParams == [limit |-> rem]

\* The unbounded loop never looking at hasNext.
LoopCond_IgnoreFlag == IF lnone THEN TRUE ELSE lbuffer \in 0 .. (val - 1)

\* The loop running once more than val times.
LoopCond_OneMore == IF lnone THEN has_next(batch) ELSE lbuffer \in 0 .. val

\* the loop's condition: has_next(batch) if lnone else lbuffer in range(val)
LoopCond == IF lnone THEN has_next(batch) ELSE lbuffer \in 0 .. (val - 1)

\* params of the request after the loop
FinalParams == IF lnone THEN NextParams ELSE RemParams

\* The early return taken for limit < 100 only.
ReturnsFirstPage_Strict == ~lnone /\ limit < PAGE

\* if not lnone and limit <= 100: return items
ReturnsFirstPage == ~lnone /\ limit <= PAGE

\* An extend that puts the new page in front.
Extend_Prepend(its, r) == get_items(r) \o its

\* An extend that skips the items the list already holds.
Extend_Dedup(its, r) ==
    its \o SelectSeq(get_items(r),
                     LAMBDA x : \A i \in 1 .. Len(its) : its[i] # x)

\* items.extend(get_items(batch))
Extend(its, r) == its \o get_items(r)

----------------------------------------------------------------------------
(* The call *)

Init ==
    /\ limit \in Limits
    /\ pc = "call"
    /\ batch = Unset
    /\ items = NoList
    /\ lbuffer = 0
    /\ val = 0
    /\ rem = 0
    /\ requests = <<>>
    /\ responses = <<>>
    /\ result = NoList
    /\ raised = "none"
    /\ kwargs = NoKwargs
    /\ shapes = "pages"
    /\ feed = Unset
    /\ helper = Unset
    /\ creds = Unset

\* The exception that follows a GET: the one _get ends with, or the
\* KeyError of get_items on a body without items.
Failure(out) ==
    IF api_request(out) # "none" THEN api_request(out)
    ELSE IF ~HasItemsKey(out) THEN "KeyError"
    ELSE "none"

\* An exception raised between two requests.
RaiseLocal(exc) ==
    /\ pc' = "raised"
    /\ raised' = exc
    /\ UNCHANGED <<limit, batch, items, lbuffer, val, rem, result,
                   requests, responses>>

\* has_next(batch) in the loop's condition raises KeyError.
CondRaises == lnone /\ ~HasFlagKey(batch)

\* A failure swallowed: the items gathered so far are returned.
Raise_ReturnPartial(params, out) ==
    /\ pc' = "returned"
    /\ result' = items
    /\ requests' = Append(requests, params)
    /\ responses' = Append(responses, out)
    /\ UNCHANGED <<limit, batch, items, lbuffer, val, rem, raised>>

\* A GET that did not return, or whose body get_items cannot read: the
\* exception leaves _get_paging_items.
Raise(params, out) ==
    /\ pc' = "raised"
    /\ raised' = Failure(out)
    /\ requests' = Append(requests, params)
    /\ responses' = Append(responses, out)
    /\ UNCHANGED <<limit, batch, items, lbuffer, val, rem, result>>

\* Lines 169-178: the first request, the early return, divmod.
FirstFetch ==
    /\ pc = "call"
    /\ UNCHANGED context
    /\ IF DuplicateParams THEN RaiseLocal("TypeError") ELSE
       \E out \in Outcomes(FirstParams) :
        IF Failure(out) # "none" THEN Raise(FirstParams, out)
        ELSE
            /\ requests' = Append(requests, FirstParams)
            /\ responses' = Append(responses, out)
            /\ batch' = out
            /\ items' = get_items(out)
            /\ IF ReturnsFirstPage
               THEN /\ pc' = "returned"
                    /\ result' = get_items(out)
                    /\ UNCHANGED <<val, rem>>
               ELSE /\ pc' = "loop"
                    /\ val' = IF lnone THEN val ELSE (limit - PAGE) \div PAGE
                    /\ rem' = IF lnone THEN rem ELSE (limit - PAGE) % PAGE
                    /\ UNCHANGED result
            /\ UNCHANGED <<limit, lbuffer, raised>>

\* Lines 181-188: one iteration of the while loop.
LoopFetch ==
    /\ pc = "loop"
    /\ ~CondRaises
    /\ LoopCond
    /\ Len(requests) < MaxFetches \/ ~lnone
    /\ UNCHANGED context
    /\ IF ~HasCursorKey(batch) THEN RaiseLocal("KeyError") ELSE
       \E out \in Outcomes(NextParams) :
        IF Failure(out) # "none"
        THEN Raise(NextParams, out)
        ELSE
            /\ lbuffer' = lbuffer + 1
            /\ requests' = Append(requests, NextParams)
            /\ responses' = Append(responses, out)
            /\ batch' = out
            /\ items' = Extend(items, out)
            /\ UNCHANGED <<limit, pc, val, rem, result, raised>>

\* Lines 190-200: the request after the loop, and the return.
FinalRequest ==
    /\ UNCHANGED context
    /\ IF lnone /\ ~HasCursorKey(batch) THEN RaiseLocal("KeyError") ELSE
       \E out \in Outcomes(FinalParams) :
        IF Failure(out) # "none" THEN Raise(FinalParams, out)
        ELSE
            /\ requests' = Append(requests, FinalParams)
            /\ responses' = Append(responses, out)
            /\ batch' = out
            /\ items' = Extend(items, out)
            /\ result' = Extend(items, out)
            /\ pc' = "returned"
            /\ UNCHANGED <<limit, lbuffer, val, rem, raised>>

\* The unbounded call returning at the first page without hasNext,
\* without a trailing request.
FinalFetch_NoTrailing ==
    /\ pc = "loop"
    /\ ~LoopCond
    /\ IF lnone
       THEN /\ pc' = "returned"
            /\ result' = items
            /\ UNCHANGED <<limit, batch, items, lbuffer, val, rem,
                           requests, responses, raised>>
            /\ UNCHANGED context
       ELSE FinalRequest

\* The bounded call skipping the final request when the remainder is 0.
FinalFetch_SkipEmpty ==
    /\ pc = "loop"
    /\ ~LoopCond
    /\ IF ~lnone /\ rem = 0
       THEN /\ pc' = "returned"
            /\ result' = items
            /\ UNCHANGED <<limit, batch, items, lbuffer, val, rem,
                           requests, responses, raised>>
            /\ UNCHANGED context
       ELSE FinalRequest

FinalFetch ==
    /\ pc = "loop"
    /\ ~CondRaises
    /\ ~LoopCond
    /\ FinalRequest

Next == FirstFetch \/ LoopFetch \/ FinalFetch

Spec == Init /\ [][Next]_vars

\* The call is sequential and synchronous: as long as a request is due
\* and answered, the call goes on.
FairSpec == Init /\ [][Next]_vars /\ WF_vars(Next)

----------------------------------------------------------------------------
(* The call made by any public paging method, against any server *)

\* Line 181 with a batch that has no hasNext: the condition raises.
CondFails ==
    /\ pc = "loop"
    /\ CondRaises
    /\ RaiseLocal("KeyError")
    /\ UNCHANGED context

InitAnyCall ==
    /\ limit \in Limits
    /\ pc = "call"
    /\ batch = Unset
    /\ items = NoList
    /\ lbuffer = 0
    /\ val = 0
    /\ rem = 0
    /\ requests = <<>>
    /\ responses = <<>>
    /\ result = NoList
    /\ raised = "none"
    /\ kwargs \in {NoKwargs, TagKwargs}
    /\ shapes = "any"
    /\ feed = Unset
    /\ helper = Unset
    /\ creds = Unset

NextAnyCall == FirstFetch \/ LoopFetch \/ FinalFetch \/ CondFails

SpecAnyCall == InitAnyCall /\ [][NextAnyCall]_vars

----------------------------------------------------------------------------
(* The feed generators: featured, collective, subscriptions, popular *)

\* The generators, their paths, and the "from" of their read request
\* (collective and popular take no read argument and send none).
FeedKinds == {"featured", "collective", "subscriptions", "popular"}

FeedPath(kind) ==
    CASE kind = "featured" -> "/feeds/featured"
      [] kind = "collective" -> "/feeds/collective"
      [] kind = "subscriptions" -> "/timelines/home"
      [] kind = "popular" -> "/feeds/popular"

ReadFrom(kind) == IF kind = "featured" THEN "feat" ELSE "subs"

HasReadArg(kind) == kind \in {"featured", "subscriptions"}

\* A feed body: r["data"]["content"]["items"]
FeedBody(posts) == [data |-> [content |-> [items |-> posts]]]

\* What a GET of a feed may produce: one post, two posts, no post, an
\* error body, or a transport failure.
FeedOutcomes ==
    {FeedBody(<<[id |-> i]>>) : i \in 1 .. MaxPost}
    \cup {FeedBody(<<[id |-> 1], [id |-> MaxPost]>>), FeedBody(<<>>),
          ErrorBody, TransportFailure}

\* What a PUT of a read may produce.
ReadOutcomes == {[status |-> 200], ErrorBody, TransportFailure}

\* The exception after a GET of a feed: the one _get ends with, or the
\* IndexError of items[0] on an empty list.
FeedFailure(out) ==
    IF api_request(out) # "none" THEN api_request(out)
    ELSE IF out.data.content.items = <<>> THEN "IndexError"
    ELSE "none"

\* The range reaching limit + 1 iterations.
FeedMore_Inclusive == feed.limit = None \/ feed.started <= feed.limit

\* iterator = iter(int, 1) if limit is None else range(limit):
\* there is a further iteration.
FeedMore == feed.limit = None \/ feed.started < feed.limit

\* The read request sent when read is False.
Reads_Inverted == HasReadArg(feed.kind) /\ ~feed.read

\* if read:
Reads == HasReadArg(feed.kind) /\ feed.read

GetEvent(out) ==
    [op |-> "GET", path |-> FeedPath(feed.kind), limit |-> 1, out |-> out]

PutEvent(out) ==
    [op |-> "PUT", path |-> <<"/reads/", feed.post.id>>,
     from |-> ReadFrom(feed.kind), out |-> out]

YieldEvent == [op |-> "yield", post |-> feed.post]

InitFeed ==
    /\ limit = None
    /\ pc = "idle"
    /\ batch = Unset
    /\ items = NoList
    /\ lbuffer = 0
    /\ val = 0
    /\ rem = 0
    /\ requests = <<>>
    /\ responses = <<>>
    /\ result = NoList
    /\ raised = "none"
    /\ kwargs = NoKwargs
    /\ shapes = "pages"
    /\ helper = Unset
    /\ creds = Unset
    /\ \E k \in FeedKinds, l \in {None} \cup (0 .. MaxFeedLimit),
          r \in BOOLEAN :
        /\ HasReadArg(k) \/ ~r
        /\ feed = [kind |-> k, limit |-> l, read |-> r, pc |-> "suspended",
                   started |-> 0, post |-> Unset, log |-> <<>>,
                   raised |-> "none"]

\* The caller asks for a post and the range is exhausted: the generator
\* ends (StopIteration).
FeedStop ==
    /\ feed # Unset
    /\ feed.pc = "suspended"
    /\ ~FeedMore
    /\ feed' = [feed EXCEPT !.pc = "done"]
    /\ UNCHANGED paging
    /\ UNCHANGED <<helper, creds>>

\* The caller asks for a post: the next iteration starts with its GET.
FeedGet ==
    /\ feed # Unset
    /\ feed.pc = "suspended"
    /\ FeedMore
    /\ feed.limit # None \/ feed.started < MaxFeedGets
    /\ \E out \in FeedOutcomes :
        feed' = [feed EXCEPT
                    !.started = @ + 1,
                    !.log = Append(@, GetEvent(out)),
                    !.pc = IF FeedFailure(out) # "none"
                           THEN "raised" ELSE "got",
                    !.raised = FeedFailure(out),
                    !.post = IF FeedFailure(out) # "none"
                             THEN @ ELSE out.data.content.items[1]]
    /\ UNCHANGED paging
    /\ UNCHANGED <<helper, creds>>

\* The read request for the post just fetched.
FeedRead ==
    /\ feed # Unset
    /\ feed.pc = "got"
    /\ Reads
    /\ \E out \in ReadOutcomes :
        feed' = [feed EXCEPT
                    !.log = Append(@, PutEvent(out)),
                    !.pc = IF api_request(out) # "none"
                           THEN "raised" ELSE "marked",
                    !.raised = api_request(out)]
    /\ UNCHANGED paging
    /\ UNCHANGED <<helper, creds>>

\* yield: the post reaches the caller and the generator is suspended.
FeedYield ==
    /\ feed # Unset
    /\ \/ feed.pc = "got" /\ ~Reads
       \/ feed.pc = "marked"
    /\ feed' = [feed EXCEPT !.log = Append(@, YieldEvent),
                            !.pc = "suspended"]
    /\ UNCHANGED paging
    /\ UNCHANGED <<helper, creds>>

NextFeed == FeedStop \/ FeedGet \/ FeedRead \/ FeedYield

SpecFeed == InitFeed /\ [][NextFeed]_vars

----------------------------------------------------------------------------
(* The request helpers _get, _post, _put, _delete under api_request *)

\* Error bodies: the keys api_request reads.
ErrorBodies ==
    {[error |-> e, status |-> st, error_description |-> d] :
        e \in {"bad_request", "forbidden"},
        st \in {400, 401, 403, 404},
        d \in {"Bad Request", "Not allowed"}}

\* Bodies without an "error" key; some carry a status of their own.
DataBodies ==
    {[data |-> [id |-> i], status |-> st] :
        i \in 1 .. MaxPost, st \in {200, 201}}
    \cup {FeedBody(<<[id |-> i]>>) : i \in 1 .. MaxPost}
    \cup {Page(Slice(0, n), hn, n) : n \in 0 .. MaxPost, hn \in BOOLEAN}

\* What r = requests.<verb>(...); r.json() may produce.
HelperOutcomes == ErrorBodies \cup DataBodies \cup {TransportFailure}

\* APIError(status, desc)
APIError(status, desc) ==
    [type |-> "APIError", status |-> status, desc |-> desc]

\* A decorator that hands an error body back to the caller.
decorated_NoCheck(retv) ==
    IF retv = TransportFailure
    THEN [raises |-> [type |-> "ConnectionError"], returns |-> Unset]
    ELSE [raises |-> Unset, returns |-> retv]

\* api_request.decorated: what the wrapped helper ends with, given what the
\* helper itself produced.
decorated(retv) ==
    IF retv = TransportFailure
    THEN [raises |-> [type |-> "ConnectionError"], returns |-> Unset]
    ELSE IF HasError(retv)
    THEN [raises |-> APIError(retv.status, retv.error_description),
          returns |-> Unset]
    ELSE [raises |-> Unset, returns |-> retv]

InitHelper ==
    /\ limit = None
    /\ pc = "idle"
    /\ batch = Unset
    /\ items = NoList
    /\ lbuffer = 0
    /\ val = 0
    /\ rem = 0
    /\ requests = <<>>
    /\ responses = <<>>
    /\ result = NoList
    /\ raised = "none"
    /\ kwargs = NoKwargs
    /\ shapes = "pages"
    /\ feed = Unset
    /\ creds = Unset
    /\ helper = [pc |-> "idle"]

\* One call of a wrapped helper.
HelperCall(verb) ==
    /\ helper = [pc |-> "idle"]
    /\ \E retv \in HelperOutcomes :
        helper' = [pc |-> IF decorated(retv).raises # Unset
                          THEN "raised" ELSE "returned",
                   verb |-> verb,
                   retv |-> retv,
                   raises |-> decorated(retv).raises,
                   returns |-> decorated(retv).returns]
    /\ UNCHANGED paging
    /\ UNCHANGED <<feed, creds>>

HelperGet == HelperCall("GET")

HelperPost == HelperCall("POST")

HelperPut == HelperCall("PUT")

HelperDelete == HelperCall("DELETE")

NextHelper == HelperGet \/ HelperPost \/ HelperPut \/ HelperDelete

SpecHelper == InitHelper /\ [][NextHelper]_vars

----------------------------------------------------------------------------
(* IFAPI.from_creds *)

\* primer: int = 10
DefaultPrimer == 10

Emails == {"a@example.com", "b@example.com"}

Passwords == {"hunter2", "swordfish"}

Primers == {0, DefaultPrimer}

\* What generate_basic_token may return: built from a fresh uuid4, so the
\* value differs from call to call.
BasicTokens == {"basic-1", "basic-2"}

\* Bodies of a granted token request.
TokenBodies ==
    {[access_token |-> t, token_type |-> "bearer"] :
        t \in {"bearer-1", "bearer-2"}}

\* What requests.post(BASE + "/oauth2/token", ...); r.json() may produce.
\* Bodies are well formed: an error body carries status and
\* error_description, any other body carries access_token.
AuthOutcomes == ErrorBodies \cup TokenBodies \cup {TransportFailure}

\* _req_auth(btoken, email, password): the request as the server sees it,
\* with what it produced.
req_auth(btoken, email, password, out) ==
    [op |-> "POST", path |-> "/oauth2/token",
     authorization |-> btoken, grant_type |-> "password",
     username |-> email, password |-> password, out |-> out]

\* sleep(primer)
SleepEvent(secs) == [op |-> "sleep", secs |-> secs]

\* _req_auth is not wrapped by api_request: only a failure of the transport
\* or of the JSON decoding raises out of it.
ReqAuthRaises(out) ==
    IF out = TransportFailure
    THEN [type |-> "ConnectionError"]
    ELSE Unset

\* A primer whose response is checked like the second one.
PrimerCheck_Inspect(r) ==
    IF HasError(r) THEN APIError(r.status, r.error_description) ELSE Unset

\* cls._req_auth(btoken, email, password)  # Prime the token
\* The returned dictionary is dropped: nothing is raised on its account.
PrimerCheck(r) == Unset

\* if "error" in r: raise APIError(r["status"], r["error_description"])
CredsCheck(r) ==
    IF HasError(r) THEN APIError(r.status, r.error_description) ELSE Unset

\* cls(token): _IFBaseAPI.__init__
Instance(token) == [token |-> token, auth |-> "Bearer " \o token]

InitCreds ==
    /\ limit = None
    /\ pc = "idle"
    /\ batch = Unset
    /\ items = NoList
    /\ lbuffer = 0
    /\ val = 0
    /\ rem = 0
    /\ requests = <<>>
    /\ responses = <<>>
    /\ result = NoList
    /\ raised = "none"
    /\ kwargs = NoKwargs
    /\ shapes = "pages"
    /\ feed = Unset
    /\ helper = Unset
    /\ creds \in {[pc |-> "start", email |-> e, password |-> p,
                   primer |-> s, btoken |-> "", log |-> <<>>,
                   instance |-> Unset, raised |-> Unset] :
                    e \in Emails, p \in Passwords, s \in Primers}

\* btoken = cls.generate_basic_token()
CredsToken ==
    /\ creds # Unset
    /\ creds.pc = "start"
    /\ \E b \in BasicTokens :
        creds' = [creds EXCEPT !.pc = "token", !.btoken = b]
    /\ UNCHANGED paging
    /\ UNCHANGED <<feed, helper>>

\* cls._req_auth(btoken, email, password)  # Prime the token
CredsPrime ==
    /\ creds # Unset
    /\ creds.pc = "token"
    /\ \E out \in AuthOutcomes :
        LET ev == req_auth(creds.btoken, creds.email, creds.password, out)
            exc == IF ReqAuthRaises(out) # Unset
                   THEN ReqAuthRaises(out) ELSE PrimerCheck(out)
        IN  creds' = [creds EXCEPT
                        !.log = Append(@, ev),
                        !.raised = exc,
                        !.pc = IF exc # Unset THEN "raised" ELSE "primed"]
    /\ UNCHANGED paging
    /\ UNCHANGED <<feed, helper>>

\* sleep(primer)
CredsSleep ==
    /\ creds # Unset
    /\ creds.pc = "primed"
    /\ creds' = [creds EXCEPT !.log = Append(@, SleepEvent(creds.primer)),
                              !.pc = "slept"]
    /\ UNCHANGED paging
    /\ UNCHANGED <<feed, helper>>

\* r = cls._req_auth(btoken, email, password) and the rest of from_creds
CredsAuth ==
    /\ creds # Unset
    /\ creds.pc = "slept"
    /\ \E r \in AuthOutcomes :
        LET ev == req_auth(creds.btoken, creds.email, creds.password, r)
            exc == IF ReqAuthRaises(r) # Unset
                   THEN ReqAuthRaises(r) ELSE CredsCheck(r)
        IN  creds' = [creds EXCEPT
                        !.log = Append(@, ev),
                        !.raised = exc,
                        !.instance = IF exc # Unset THEN Unset
                                     ELSE Instance(r.access_token),
                        !.pc = IF exc # Unset THEN "raised" ELSE "done"]
    /\ UNCHANGED paging
    /\ UNCHANGED <<feed, helper>>

NextCreds == CredsToken \/ CredsPrime \/ CredsSleep \/ CredsAuth

SpecCreds == InitCreds /\ [][NextCreds]_vars

----------------------------------------------------------------------------
(* Vocabulary of the properties *)

\* The GET produced a page (it neither failed nor carried an error).
IsPage(out) == api_request(out) = "none"

HasCursor(params) == "next" \in DOMAIN params

\* The page sizes requested so far, in order.
Sizes == [i \in 1 .. Len(requests) |-> requests[i].limit]

RECURSIVE SumSeq(_)
SumSeq(q) == IF q = <<>> THEN 0 ELSE Head(q) + SumSeq(Tail(q))

\* The items of the pages of a history, concatenated in fetch order.
RECURSIVE ConcatItems(_)
ConcatItems(outs) ==
    IF outs = <<>> THEN <<>>
    ELSE get_items(Head(outs)) \o ConcatItems(Tail(outs))

RECURSIVE SumLens(_)
SumLens(outs) ==
    IF outs = <<>> THEN 0
    ELSE Len(get_items(Head(outs))) + SumLens(Tail(outs))

Repeat(x, n) == [i \in 1 .. n |-> x]

Min(a, b) == IF a <= b THEN a ELSE b

AllPages == \A i \in 1 .. Len(responses) : IsPage(responses[i])

----------------------------------------------------------------------------
(* C1 .. C3: how many requests, and of which sizes *)

\* C1: with 0 <= limit <= 100 the call issues exactly one request, of
\* page size limit and without cursor, and what it returns is exactly the
\* items of that one page, whatever hasNext and cursor the page carries.
C1_SingleFetch ==
    (~lnone /\ limit <= 100 /\ pc # "call") =>
        /\ requests = <<[limit |-> limit]>>
        /\ pc \in {"returned", "raised"}
        /\ pc = "returned" => result = get_items(responses[1])

C1_Witness ==
    /\ limit = 100
    /\ pc = "returned"
    /\ has_next(responses[1])
    /\ get_next(responses[1]) = 50
    /\ result = Slice(0, 50)

\* The sizes a call with limit l > 100 is to request, in order.
C2_ExpectedSizes(l) ==
    <<100>> \o Repeat(100, (l - 100) \div 100) \o <<(l - 100) % 100>>

\* C2: with limit > 100 a call that returns has issued exactly
\* 2 + full_batches requests whose sizes are 100, then 100 full_batches
\* times, then remainder, whatever the pages' hasNext flags and lengths;
\* before that, the sizes requested are a prefix of that sequence.
C2_FetchPlan ==
    (~lnone /\ limit > 100) =>
        /\ Len(Sizes) <= Len(C2_ExpectedSizes(limit))
        /\ Sizes = SubSeq(C2_ExpectedSizes(limit), 1, Len(Sizes))
        /\ pc = "returned" => Len(requests) = 2 + (limit - 100) \div 100

C2_Witness ==
    /\ limit = 250
    /\ pc = "returned"
    /\ Sizes = <<100, 100, 50>>
    /\ ~has_next(responses[1])
    /\ Len(get_items(responses[2])) = 50

\* Page k is the first page with hasNext = false.
C3_FirstLast(k) ==
    /\ IsPage(responses[k])
    /\ ~has_next(responses[k])
    /\ \A j \in 1 .. (k - 1) : has_next(responses[j])

\* C3: with limit = None, once page k is the first page with
\* hasNext = false, exactly one more request follows it, of size 100, and
\* the call then ends: a call that returns has issued k + 1 requests.
C3_OneTrailingFetch ==
    lnone =>
        /\ \A k \in 1 .. Len(responses) :
            C3_FirstLast(k) =>
                /\ Len(requests) <= k + 1
                /\ Len(requests) = k + 1 =>
                    /\ requests[k + 1].limit = 100
                    /\ pc \in {"returned", "raised"}
                /\ pc = "returned" => Len(requests) = k + 1
        /\ pc = "returned" =>
            \E k \in 1 .. (Len(responses) - 1) : C3_FirstLast(k)

C3_Witness ==
    /\ lnone
    /\ pc = "returned"
    /\ Len(requests) = 3
    /\ has_next(responses[1])
    /\ ~has_next(responses[2])
    /\ has_next(responses[3])

----------------------------------------------------------------------------
(* C4 .. C6: what is returned, and how the cursor travels *)

\* The server answered request i as a cursor-ordered server that holds
\* enough items does: the requested number of items after the request's
\* cursor (from the beginning without cursor), and the position after them
\* as the next cursor.
C4_Honest(i) ==
    /\ IsPage(responses[i])
    /\ get_items(responses[i]) =
            Slice(StartOf(requests[i]), requests[i].limit)
    /\ get_next(responses[i]) = StartOf(requests[i]) + requests[i].limit

\* C4: with a limit present, against a server that serves its sequence in
\* cursor order and holds at least limit items, the call returns exactly
\* the first limit items of the sequence, in order, each once.
C4_LimitCapsTotal ==
    (/\ ~lnone
     /\ pc = "returned"
     /\ \A i \in 1 .. Len(responses) : C4_Honest(i))
        => result = Slice(0, limit)

\* C5: a call that returns returns the concatenation, in fetch order, of
\* the items of every page it fetched, nothing dropped, reordered,
\* deduplicated or truncated; its length is the sum of the pages' lengths.
\* The accumulated list is that concatenation after every page.
C5_Concatenation ==
    /\ pc = "loop" => items = ConcatItems(responses)
    /\ pc = "returned" =>
        /\ result = ConcatItems(responses)
        /\ Len(result) = SumLens(responses)

C5_Witness ==
    /\ pc = "returned"
    /\ Len(responses) = 3
    /\ Len(result) = 251
    /\ \E i \in 1 .. 100 : \E j \in 201 .. 251 : result[i] = result[j]

\* C6: the first request carries no cursor, and every later request
\* carries the cursor of the page fetched immediately before it.
C6_CursorThreaded ==
    \A i \in 1 .. Len(requests) :
        IF i = 1 THEN ~HasCursor(requests[i])
        ELSE /\ HasCursor(requests[i])
             /\ requests[i].next = get_next(responses[i - 1])

----------------------------------------------------------------------------
(* C7: failures *)

\* C7: when request k fails (the transport fails, or the body is an error)
\* the call ends with that error, returns no list, and request k is the
\* last request: nothing is enabled after it.
C7_FailureAborts ==
    /\ \A k \in 1 .. Len(responses) :
        ~IsPage(responses[k]) =>
            /\ k = Len(responses)
            /\ pc = "raised"
    /\ pc = "raised" =>
        /\ Len(requests) = Len(responses)
        /\ ~IsPage(responses[Len(responses)])
        /\ raised = api_request(responses[Len(responses)])
        /\ result = NoList
        /\ ~ENABLED Next
    /\ pc # "raised" => raised = "none"

C7_Witness ==
    /\ pc = "raised"
    /\ raised = "APIError"
    /\ Len(requests) = 3
    /\ Len(items) = 200
    /\ result = NoList

----------------------------------------------------------------------------
(* C8 .. C10: the sizes requested *)

\* C8: every request asks for a page size in 0 .. 100; the first asks for
\* min(100, limit), and for 100 without limit.
C8_PageSizeRange ==
    /\ \A i \in 1 .. Len(requests) : requests[i].limit \in 0 .. 100
    /\ requests # <<>> =>
        requests[1].limit = IF lnone THEN 100 ELSE Min(100, limit)

C8_Witness ==
    /\ limit = 301
    /\ pc = "returned"
    /\ Sizes = <<100, 100, 100, 1>>

\* C9: with a limit present the page sizes requested so far never add up
\* to more than limit, and they add up to exactly limit when the call
\* returns.
C9_RequestedTotal ==
    ~lnone =>
        /\ SumSeq(Sizes) <= limit
        /\ pc = "returned" => SumSeq(Sizes) = limit

C9_Witness ==
    /\ limit = 199
    /\ pc = "returned"
    /\ Len(requests) = 2
    /\ SumSeq(Sizes) = 199
    /\ Len(result) > 199

\* C10: with limit > 100 a multiple of 100 the final request is still
\* issued, with page size 0, and the items of its page end the result.
C10_ZeroSizeFetch ==
    (~lnone /\ limit > 100 /\ limit % 100 = 0 /\ pc = "returned") =>
        /\ Len(requests) = limit \div 100 + 1
        /\ requests[Len(requests)].limit = 0
        /\ \A i \in 1 .. (Len(requests) - 1) : requests[i].limit = 100
        /\ result = ConcatItems(SubSeq(responses, 1, Len(responses) - 1))
                        \o get_items(responses[Len(responses)])

C10_Witness ==
    /\ limit = 200
    /\ pc = "returned"
    /\ Sizes = <<100, 100, 0>>
    /\ Len(get_items(responses[3])) = 1
    /\ Len(result) = 201

----------------------------------------------------------------------------
(* C11, C12: incomplete pages, and the call made by tag_posts *)

\* A page that carries the items list, the next cursor and the hasNext flag.
C11_Complete(out) ==
    /\ IsPage(out)
    /\ HasItemsKey(out)
    /\ HasCursorKey(out)
    /\ HasFlagKey(out)

\* C11: a call that received a page lacking the items list, the next
\* cursor or the hasNext flag does not return a list: every page of a call
\* that returned was complete.
C11_IncompletePageAborts ==
    (kwargs = NoKwargs /\ pc = "returned") =>
        \A k \in 1 .. Len(responses) : C11_Complete(responses[k])

\* C12: the call tag_posts makes does not fail before a request is sent:
\* once it has left its first line it has issued a request, and it never
\* ends with the TypeError of a keyword argument passed twice.
C12_TagPostsFetches ==
    (kwargs = TagKwargs /\ pc # "call") =>
        /\ Len(requests) >= 1
        /\ raised # "TypeError"

----------------------------------------------------------------------------
(* C13, C14: the feed generators *)

\* The positions of a feed's log that hold an event of kind op.
FeedEvents(op) == {i \in 1 .. Len(feed.log) : feed.log[i].op = op}

\* C13: a feed generator called with limit = n that ends has yielded
\* exactly n posts and issued exactly n GETs, each with limit = 1; the GETs
\* are lazy: whenever the generator is suspended or has ended, the GETs
\* issued are as many as the posts taken, and one more only while a post
\* is on its way; with limit = None the generator never ends by itself.
C13_LazyFeed ==
    feed # Unset =>
        /\ \A i \in FeedEvents("GET") :
            /\ feed.log[i].limit = 1
            /\ feed.log[i].path = FeedPath(feed.kind)
        /\ feed.pc \in {"suspended", "done"} =>
            Cardinality(FeedEvents("GET")) = Cardinality(FeedEvents("yield"))
        /\ Cardinality(FeedEvents("GET")) - Cardinality(FeedEvents("yield"))
                \in {0, 1}
        /\ feed.pc = "done" =>
            /\ feed.limit # None
            /\ Cardinality(FeedEvents("yield")) = feed.limit
            /\ Cardinality(FeedEvents("GET")) = feed.limit
        /\ feed.limit # None =>
            Cardinality(FeedEvents("GET")) <= feed.limit

C13_Witness ==
    /\ feed # Unset
    /\ feed.kind = "popular"
    /\ feed.limit = 3
    /\ feed.pc = "done"
    /\ Cardinality(FeedEvents("GET")) = 3
    /\ Cardinality(FeedEvents("yield")) = 3

\* The post a GET event fetched.
C14_Fetched(i) == feed.log[i].out.data.content.items[1]

\* C14: in featured and subscriptions with read = True every yield is
\* preceded immediately by the read request PUT /reads/<id of the post
\* yielded> and that by the GET that fetched the post, and there is no
\* other read request; with read = False (and in the feeds without read
\* argument) no read request is issued; a failed read request ends the
\* generator, so its post is not yielded.
C14_ReadBeforeYield ==
    feed # Unset =>
        /\ \A i \in FeedEvents("PUT") :
            /\ HasReadArg(feed.kind) /\ feed.read
            /\ i >= 2
            /\ feed.log[i - 1].op = "GET"
            /\ feed.log[i].path = <<"/reads/", C14_Fetched(i - 1).id>>
            /\ api_request(feed.log[i].out) # "none" =>
                /\ i = Len(feed.log)
                /\ feed.pc = "raised"
            /\ api_request(feed.log[i].out) = "none" =>
                \/ i = Len(feed.log) /\ feed.pc = "marked"
                \/ i < Len(feed.log) /\ feed.log[i + 1].op = "yield"
        /\ \A i \in FeedEvents("yield") :
            IF HasReadArg(feed.kind) /\ feed.read
            THEN /\ i >= 3
                 /\ feed.log[i - 1].op = "PUT"
                 /\ feed.log[i - 1].path = <<"/reads/", feed.log[i].post.id>>
                 /\ feed.log[i - 2].op = "GET"
                 /\ feed.log[i].post = C14_Fetched(i - 2)
            ELSE /\ i >= 2
                 /\ feed.log[i - 1].op = "GET"
                 /\ feed.log[i].post = C14_Fetched(i - 1)

C14_Witness ==
    /\ feed # Unset
    /\ feed.kind = "featured"
    /\ feed.read
    /\ Cardinality(FeedEvents("yield")) = 2
    /\ Cardinality(FeedEvents("PUT")) = 3
    /\ feed.pc = "raised"
    /\ feed.log[2].path # feed.log[5].path

----------------------------------------------------------------------------
(* C15: api_request *)

\* C15: a wrapped helper returns the decoded body unchanged when the body
\* has no "error" key, and raises APIError with the body's status and
\* error_description when it has one; a body with an "error" key is never
\* returned.
C15_ErrorNeverReturned ==
    helper # Unset /\ helper.pc # "idle" =>
        /\ helper.verb \in {"GET", "POST", "PUT", "DELETE"}
        /\ (helper.retv # TransportFailure
                /\ "error" \notin DOMAIN helper.retv) =>
            /\ helper.pc = "returned"
            /\ helper.returns = helper.retv
            /\ helper.raises = Unset
        /\ (helper.retv # TransportFailure
                /\ "error" \in DOMAIN helper.retv) =>
            /\ helper.pc = "raised"
            /\ helper.returns = Unset
            /\ helper.raises.type = "APIError"
            /\ helper.raises.status = helper.retv.status
            /\ helper.raises.desc = helper.retv.error_description
        /\ helper.pc = "returned" => "error" \notin DOMAIN helper.returns

C15_Witness ==
    /\ helper # Unset
    /\ helper.pc = "raised"
    /\ helper.verb = "DELETE"
    /\ "error" \in DOMAIN helper.retv
    /\ helper.retv.error = "forbidden"
    /\ helper.raises = [type |-> "APIError", status |-> 403,
                        desc |-> "Not allowed"]

----------------------------------------------------------------------------
(* C16: termination *)

Terminated == pc \in {"returned", "raised"}

\* Some fetched page reported hasNext = false.
C16_SomePageLast ==
    \E k \in 1 .. Len(responses) :
        IsPage(responses[k]) /\ ~has_next(responses[k])

\* The number of requests of a call with limit l that returns.
C16_FetchCount(l) == IF l <= 100 THEN 1 ELSE 2 + (l - 100) \div 100

\* C16: with a limit the call terminates, after a number of requests fixed
\* by the limit alone; without limit it terminates once a page has reported
\* hasNext = false and returns only then; and as long as every page reports
\* hasNext = true its next step is one more request, never the return.
C16_Termination ==
    /\ (~lnone => <>Terminated)
    /\ [](~lnone /\ pc = "returned"
            => Len(requests) = C16_FetchCount(limit))
    /\ ((lnone /\ C16_SomePageLast) ~> Terminated)
    /\ [](lnone /\ pc = "returned" => C16_SomePageLast)
    /\ [][(lnone /\ pc = "loop" /\ has_next(batch))
            => (/\ Len(requests') = Len(requests) + 1
                /\ requests'[Len(requests')].limit = 100
                /\ pc' # "returned")]_vars
    /\ [](lnone /\ pc = "loop" /\ has_next(batch)
            /\ Len(requests) < MaxFetches => ENABLED LoopFetch)

C16_Witness ==
    /\ lnone
    /\ pc = "loop"
    /\ Len(requests) = 4
    /\ \A k \in 1 .. 4 : has_next(responses[k])

----------------------------------------------------------------------------
(* C17: the unbounded call against a finite server *)

\* The page before the trailing one, and the number of items the server
\* holds if that page ends with its last item.
C17_LastPage == Len(responses) - 1

C17_Held ==
    StartOf(requests[C17_LastPage])
        + Len(get_items(responses[C17_LastPage]))

\* Pages 1 .. C17_LastPage are the answers of a server that holds the
\* items 1 .. n and serves them in cursor order: each page holds the items
\* after the request's cursor, as many as asked or as are left, its cursor
\* is the position after them, and hasNext says whether items are left.
C17_FiniteServer(n) ==
    \A i \in 1 .. C17_LastPage :
        LET c == StartOf(requests[i])
            m == Min(requests[i].limit, n - c)
        IN  /\ IsPage(responses[i])
            /\ c <= n
            /\ get_items(responses[i]) = Slice(c, m)
            /\ get_next(responses[i]) = c + m
            /\ has_next(responses[i]) = (c + m < n)

\* C17: with limit = None, against a server that holds N items, serves
\* them in cursor order and reports hasNext = false exactly on the page with
\* the last item, the result starts with the N items, in order, each once,
\* and what follows is the items of the trailing page and nothing else.
C17_AllThenTrailing ==
    (lnone /\ pc = "returned" /\ C17_FiniteServer(C17_Held)) =>
        /\ Len(result) >= C17_Held
        /\ SubSeq(result, 1, C17_Held) = Slice(0, C17_Held)
        /\ SubSeq(result, C17_Held + 1, Len(result))
                = get_items(responses[Len(responses)])

C17_Witness ==
    /\ lnone
    /\ pc = "returned"
    /\ Len(responses) = 4
    /\ C17_Held = 250
    /\ C17_FiniteServer(250)
    /\ Len(result) = 350

\* The token requests from_creds has issued so far, in order.
C18_Posts == SelectSeq(creds.log, LAMBDA ev : ev.op = "POST")

\* The call is over: an instance was returned or an exception left it.
C18_Over == creds.pc \in {"done", "raised"}

\* The exchange from_creds goes through when no request fails in
\* transport: a request, then the sleep, then the second request.
C18_Shape(log) ==
    /\ Len(log) <= 3
    /\ Len(log) >= 1 => log[1].op = "POST"
    /\ Len(log) >= 2 => log[2] = SleepEvent(creds.primer)
    /\ Len(log) >= 3 => log[3].op = "POST"

\* C18: from_creds issues two token requests, both with the one basic token
\* generate_basic_token returned and with the caller's credentials, the
\* second after the first has returned and sleep(primer) is over; an error
\* body in the first response does not end the call (only a failure of the
\* request itself does); the second response alone decides the outcome: an
\* "error" key raises APIError(status, error_description) and no instance
\* exists, otherwise the instance carries that response's access_token.
C18_TwoTokenRequests ==
    /\ C18_Shape(creds.log)
    /\ \A i \in 1 .. Len(C18_Posts) :
        /\ creds.btoken \in BasicTokens
        /\ C18_Posts[i].authorization = creds.btoken
        /\ C18_Posts[i].username = creds.email
        /\ C18_Posts[i].password = creds.password
    /\ (C18_Over /\ Len(creds.log) < 3) =>
        /\ Len(creds.log) = 1
        /\ creds.log[1].out = TransportFailure
        /\ creds.raised = [type |-> "ConnectionError"]
        /\ creds.instance = Unset
    /\ (Len(creds.log) >= 1 /\ creds.log[1].out # TransportFailure) =>
        creds.pc # "raised" \/ Len(creds.log) = 3
    /\ Len(creds.log) = 3 =>
        LET r == creds.log[3].out
        IN  /\ C18_Over
            /\ Len(C18_Posts) = 2
            /\ HasError(r) =>
                /\ creds.pc = "raised"
                /\ creds.raised = APIError(r.status, r.error_description)
                /\ creds.instance = Unset
            /\ (~HasError(r) /\ r # TransportFailure) =>
                /\ creds.pc = "done"
                /\ creds.raised = Unset
                /\ creds.instance # Unset
                /\ creds.instance.token = r.access_token
    /\ creds.pc = "done" => Len(creds.log) = 3
    /\ creds.pc = "primed" => Len(creds.log) = 1
    /\ creds.pc = "slept" => Len(creds.log) = 2

\* The primer was answered with an error body, and the call still returned
\* an instance with the token of the second response.
C18_Witness ==
    /\ creds.pc = "done"
    /\ Len(creds.log) = 3
    /\ HasError(creds.log[1].out)
    /\ creds.primer = DefaultPrimer
    /\ creds.instance.token = "bearer-2"
    /\ creds.log[3].out.access_token = "bearer-2"

====
